---- MODULE Spec2Model ----
(***************************************************************************)
(* Model of the hierarchical multi-agent router of the YouTube sentiment   *)
(* chatbot backend: the session store (core/session_manager.py), the       *)
(* streaming request handler (api/routes.py), the system graph             *)
(* (graphs/main_graph.py), the two team graphs (graphs/research_graph.py,  *)
(* graphs/analysis_graph.py), the node wrappers (agents/agent_factory.py), *)
(* the router output extraction (agents/supervisor.py) and the retrieval   *)
(* tool with its module-global document cache (agents/research_tools.py).  *)
(*                                                                         *)
(* Time is counted in hours.  A Python dict is a function whose DOMAIN is  *)
(* the set of its keys; Optional values are sequences of length 0 or 1.    *)
(***************************************************************************)
EXTENDS Integers, Sequences, FiniteSets, TLC

VARIABLES
    now,        \* datetime.now(), in hours
    sessions,   \* SessionManager._sessions: session id -> VideoSession
    used,       \* session ids uuid4 has already handed out
    call,       \* the last SessionManager call: operation, argument, return value
    ckpt,       \* MemorySaver of each session's main graph: thread id -> channel values
    retrieved_documents,  \* research_tools._retrieved_documents (module global)
    pc,         \* per request: position in analyze_video_stream
    req,        \* per request: its arguments (kind, session_id, question)
    events,     \* per request: the JSON events yielded so far
    pass,       \* per request: "stream" (astream) or "invoke" (ainvoke) drive
    loc,        \* per request: channel values of the running main-graph invocation
    steps,      \* per request: super-steps executed by that invocation
    gnode,      \* per request: the main-graph node scheduled next
    readback,   \* per request: what get_retrieved_documents returned to it
    turn,       \* per request: bookkeeping of the turn (log length at start, team runs)
    nteams      \* team-node executions so far, over all requests

storeVars == <<now, sessions, used, call>>
graphVars == <<ckpt, retrieved_documents, pc, req, events, pass, loc, steps, gnode,
               readback, turn, nteams>>
vars == <<now, sessions, used, call, ckpt, retrieved_documents, pc, req, events,
          pass, loc, steps, gnode, readback, turn, nteams>>

----------------------------------------------------------------------------
(* Bounds of the model *)

\* the clock stops advancing here
MaxNow == 50
\* the same where requests are being served while the clock runs
MaxServeNow == 25
\* team-node executions in one run of the model, over all requests
MaxTeamRuns == 2
\* super-steps one invocation of the main graph may execute (recursion_limit)
RecursionLimit == 3
\* super-steps one invocation of a team graph may execute (recursion_limit)
\* where the team run is one step of the main graph: room for one member
TeamRecursionLimit == 3
\* the same limit where a team graph is run on its own, step by step: room
\* for two members between three router steps
TeamStepLimit == 5

----------------------------------------------------------------------------
(* Program constants *)

\* SessionManager.__init__(session_ttl_hours = 24)
SessionTTL == 24

SessionIds == {"s1", "s2"}
\* the requests the server receives, numbered in order of arrival
Reqs == {1, 2}
Videos == {"v1"}

\* the steps the clock takes: just under, exactly, and just over the TTL
TickSteps == {SessionTTL - 1, SessionTTL, SessionTTL + 1}

\* Optional[...]: None and Some(x)
None == <<>>
Some(x) == <<x>>

\* artifacts attached by update_session; "none" is Python's None / empty default
Artifacts == {"none", "built"}

\* the keyword arguments update_session is called with: every artifact, none
\* of them, or exactly one
UpdateArgs ==
    {a \in [{"main_graph", "documents", "bm25_retriever", "raw_blobs"} -> Artifacts] :
        Cardinality({k \in DOMAIN a : a[k] = "built"}) \in {0, 1, 4}}

----------------------------------------------------------------------------
(* core/session_manager.py *)

\* VideoSession(session_id, video_id, video_title, channel_name): the dataclass
\* defaults give created_at = last_accessed = now and empty artifacts
VideoSession(sid, vid, t) ==
    [session_id    |-> sid,
     video_id      |-> vid,
     video_title   |-> <<"title", vid>>,
     channel_name  |-> <<"channel", vid>>,
     created_at    |-> t,
     last_accessed |-> t,
     main_graph    |-> "none",
     documents     |-> "none",
     bm25_retriever |-> "none",
     raw_blobs     |-> "none"]

\* datetime.now() - session.last_accessed > self._session_ttl
IsExpired_Swapped(session, t) == session.last_accessed - t > SessionTTL
IsExpired(session, t) == t - session.last_accessed > SessionTTL

\* the dict without key sid
DictDel(d, sid) == [k \in (DOMAIN d) \ {sid} |-> d[k]]
\* the dict with d[sid] = v
DictPut(d, sid, v) == [k \in (DOMAIN d) \cup {sid} |-> IF k = sid THEN v ELSE d[k]]

\* SessionManager.delete_session, as a function of the dict
delete_session(d, sid) == IF sid \in DOMAIN d THEN DictDel(d, sid) ELSE d

\* SessionManager.get_session as a function (dict, id, time) -> (dict, result)
get_session_NoBump(d, sid, t) ==
    IF sid \notin DOMAIN d
    THEN [store |-> d, ret |-> None]
    ELSE IF IsExpired(d[sid], t)
         THEN [store |-> delete_session(d, sid), ret |-> None]
         ELSE [store |-> d, ret |-> Some(d[sid])]
get_session(d, sid, t) ==
    IF sid \notin DOMAIN d
    THEN [store |-> d, ret |-> None]
    ELSE IF IsExpired(d[sid], t)
         THEN [store |-> delete_session(d, sid), ret |-> None]
         ELSE LET s == [d[sid] EXCEPT !.last_accessed = t]
              IN  [store |-> DictPut(d, sid, s), ret |-> Some(s)]

\* SessionManager.update_session: an argument "none" (Python None) is skipped
update_session_Overwrites(d, sid, mg, docs, bm, blobs, t) ==
    IF sid \notin DOMAIN d
    THEN d
    ELSE DictPut(d, sid, [d[sid] EXCEPT !.main_graph = mg, !.documents = docs,
                                        !.bm25_retriever = bm, !.raw_blobs = blobs,
                                        !.last_accessed = t])
update_session(d, sid, mg, docs, bm, blobs, t) ==
    IF sid \notin DOMAIN d
    THEN d
    ELSE LET s0 == d[sid]
             s1 == IF mg # "none" THEN [s0 EXCEPT !.main_graph = mg] ELSE s0
             s2 == IF docs # "none" THEN [s1 EXCEPT !.documents = docs] ELSE s1
             s3 == IF bm # "none" THEN [s2 EXCEPT !.bm25_retriever = bm] ELSE s2
             s4 == IF blobs # "none" THEN [s3 EXCEPT !.raw_blobs = blobs] ELSE s3
         IN  DictPut(d, sid, [s4 EXCEPT !.last_accessed = t])

\* SessionManager.cleanup_expired_sessions
cleanup_expired_sessions(d, t) ==
    LET expired_ids == {sid \in DOMAIN d : IsExpired(d[sid], t)}
    IN  [k \in (DOMAIN d) \ expired_ids |-> d[k]]

\* SessionManager.list_active_sessions: the ids of the listed sessions
list_active_sessions(d) == {d[k].session_id : k \in DOMAIN d}

----------------------------------------------------------------------------
(* The session store driven through its public methods *)

NoCall ==
    [op |-> "-", sid |-> "-", args |-> None, was |-> None, ret |-> None, listed |-> {}]
Call(op, sid) == [NoCall EXCEPT !.op = op, !.sid = sid]

\* uuid4(): an id never handed out before; ids are interchangeable, and the
\* first one handed out is called s1
uuid4(handed) == IF handed = {} THEN {"s1"} ELSE SessionIds \ handed

StoreInit ==
    /\ now = 0
    /\ sessions = <<>>
    /\ used = {}
    /\ call = NoCall

\* time passes
Tick ==
    /\ \E d \in TickSteps :
          /\ now + d <= MaxNow
          /\ now' = now + d
    /\ call' = NoCall
    /\ UNCHANGED <<sessions, used>>
    /\ UNCHANGED graphVars

\* create_session: uuid4 yields an id never handed out before
CreateSession ==
    /\ \E sid \in uuid4(used), vid \in Videos :
          /\ sessions' = DictPut(sessions, sid, VideoSession(sid, vid, now))
          /\ used' = used \cup {sid}
          /\ call' = Call("create", sid)
    /\ UNCHANGED now
    /\ UNCHANGED graphVars

GetSession ==
    /\ \E sid \in SessionIds :
          LET r == get_session(sessions, sid, now)
          IN  /\ sessions' = r.store
              /\ call' = [Call("get", sid) EXCEPT
                            !.was = IF sid \in DOMAIN sessions
                                    THEN Some(sessions[sid]) ELSE None,
                            !.ret = r.ret]
    /\ UNCHANGED <<now, used>>
    /\ UNCHANGED graphVars

UpdateSession ==
    /\ \E sid \in SessionIds, a \in UpdateArgs :
          /\ sessions' = update_session(sessions, sid, a.main_graph, a.documents,
                                        a.bm25_retriever, a.raw_blobs, now)
          /\ call' = [Call("update", sid) EXCEPT !.args = Some(a)]
    /\ UNCHANGED <<now, used>>
    /\ UNCHANGED graphVars

DeleteSession ==
    /\ \E sid \in SessionIds :
          /\ sessions' = delete_session(sessions, sid)
          /\ call' = Call("delete", sid)
    /\ UNCHANGED <<now, used>>
    /\ UNCHANGED graphVars

CleanupExpiredSessions ==
    /\ sessions' = cleanup_expired_sessions(sessions, now)
    /\ call' = Call("cleanup", "-")
    /\ UNCHANGED <<now, used>>
    /\ UNCHANGED graphVars

ListActiveSessions ==
    /\ call' = [Call("list", "-") EXCEPT !.listed = list_active_sessions(sessions)]
    /\ UNCHANGED <<now, sessions, used>>
    /\ UNCHANGED graphVars

StoreNext ==
    \/ Tick
    \/ CreateSession
    \/ GetSession
    \/ UpdateSession
    \/ DeleteSession
    \/ CleanupExpiredSessions
    \/ ListActiveSessions

----------------------------------------------------------------------------
(* Values passed through the graphs *)

Questions == {"q1", "q2"}
\* the first request asks q1; a later one repeats it or asks another question
QuestionsOf(r) == IF r = 1 THEN {"q1"} ELSE Questions
\* what an agent's LLM may answer
AgentOutputs == {"o1"}

\* HumanMessage(content = c, name = n); "-" is name = None
HumanMessage(c, n) == [content |-> c, name |-> n]

\* langchain Document; the documents of a session's retriever carry its id
Document(sid, c) == [page_content |-> c, metadata |-> sid]
\* result['context'] of the session's RAG graph for some query
RetrievalResults(sid) == {{}, {Document(sid, "c1")}, {Document(sid, "c2")}}

Last(seq) == seq[Len(seq)]
\* dict.get(key, default) on an optional channel value
DictGet(opt, default) == IF opt = None THEN default ELSE opt[1]

----------------------------------------------------------------------------
(* agents/supervisor.py *)

FINISH == "FINISH"
\* a name that is in no team and is not FINISH
UnknownName == "Writer"

SuperMembers == {"Research team", "Analysis team"}
ResearchMembers == {"VideoSearch", "CommentFinder"}
AnalysisMembers == {"Topic", "Sentiment"}

NoArgs == [has_next |-> FALSE, next |-> "-"]
\* what JsonOutputToolsParser can hand to extract_next for a router with these
\* members: no tool call, a call without "next", a call with some "next"
ParserOutputs(members) ==
    {<<>>, <<[args |-> NoArgs]>>}
      \cup {<<[args |-> [has_next |-> TRUE, next |-> c]]>> :
               c \in members \cup {FINISH, UnknownName}}

\* create_team_supervisor.extract_next: the args dict of the first tool call,
\* or the (empty) list itself
extract_next(output) ==
    IF Len(output) > 0
    THEN [kind |-> "dict", has_next |-> output[1].args.has_next,
          next |-> output[1].args.next]
    ELSE [kind |-> "list", has_next |-> FALSE, next |-> "-"]

----------------------------------------------------------------------------
(* Conditional edges: add_conditional_edges(router, lambda x: x["next"], map) *)

PathMap(members) == [k \in members \cup {FINISH} |-> IF k = FINISH THEN "END" ELSE k]

\* the destination the path map gives for a name; None is the KeyError
Route_DefaultFinish(members, name) ==
    IF name \in DOMAIN PathMap(members) THEN Some(PathMap(members)[name]) ELSE Some("END")
Route(members, name) ==
    IF name \in DOMAIN PathMap(members) THEN Some(PathMap(members)[name]) ELSE None

\* One router super-step on channel values st: the node returns
\* extract_next(output), its "next" (when present) is written, and the branch
\* reads x["next"] and looks it up.  ok = FALSE when the step raises.
\* unknown tells whether the router emitted a name outside members and FINISH.
RouterStep(st, output, members) ==
    LET upd == extract_next(output)
        st1 == IF upd.has_next THEN [st EXCEPT !.next = Some(upd.next)] ELSE st
        dest == IF st1.next = None THEN None ELSE Route(members, st1.next[1])
        unknown == upd.has_next /\ upd.next \notin members \cup {FINISH}
    IN  IF upd.kind # "dict" \/ dest = None
        THEN [ok |-> FALSE, state |-> st, dest |-> "-", unknown |-> unknown]
        ELSE [ok |-> TRUE, state |-> st1, dest |-> dest[1], unknown |-> unknown]

----------------------------------------------------------------------------
(* core/state.py: channel values and how a node's update is applied *)

\* no channel written yet
EmptyState == [messages |-> <<>>, documents |-> None, next |-> None]

\* SuperState / ResearchTeamState / SentimentState: messages is reduced with
\* operator.add, documents is overwritten when the update has the key
ApplyUpdate_MergeDocuments(st, upd) ==
    [st EXCEPT !.messages = @ \o upd.messages,
               !.documents = IF upd.documents = None THEN @
                             ELSE Some(DictGet(@, {}) \cup upd.documents[1])]
ApplyUpdate_Replace(st, upd) ==
    [st EXCEPT !.messages = upd.messages,
               !.documents = IF upd.documents = None THEN @ ELSE upd.documents]
ApplyUpdate(st, upd) ==
    [st EXCEPT !.messages = @ \o upd.messages,
               !.documents = IF upd.documents = None THEN @ ELSE upd.documents]

----------------------------------------------------------------------------
(* agents/agent_factory.py *)

\* agent_node: AgentExecutor.invoke returns its inputs merged with its outputs,
\* so result.get("documents", []) is the state's documents when the key is set
agent_node_OutputsOnly(st, output, name) ==
    [messages |-> <<HumanMessage(output, name)>>, documents |-> Some({})]
agent_node_AddsDocument(st, output, name) ==
    [messages |-> <<HumanMessage(output, name)>>,
     documents |-> Some(DictGet(st.documents, {}) \cup {Document("-", output)})]
agent_node(st, output, name) ==
    [messages |-> <<HumanMessage(output, name)>>,
     documents |-> Some(DictGet(st.documents, {}))]

\* agent_node_with_docs: the documents of the last tool observation, or the
\* state's documents when there are none
agent_node_with_docs(st, output, name, observation) ==
    LET documents == IF name = "CommentFinder" /\ observation # None
                     THEN observation[1] ELSE {}
    IN  [messages |-> <<HumanMessage(output, name)>>,
         documents |-> Some(IF documents # {} THEN documents
                            ELSE DictGet(st.documents, {}))]

----------------------------------------------------------------------------
(* graphs/research_graph.py, graphs/analysis_graph.py, graphs/main_graph.py *)

\* build_main_graph.get_last_message
get_last_message_First(st) == st.messages[1].content
get_last_message(st) == Last(st.messages).content

\* create_research_chain.enter_research_chain
enter_research_chain(message) ==
    [messages |-> <<HumanMessage(message, "-")>>, documents |-> None,
     team_members |-> None, next |-> None]

\* create_research_chain.research_chain_with_docs: state is what the chain was
\* entered with, result the final state of the research graph
research_chain_with_docs(state, result) ==
    [messages |-> result.messages,
     documents |-> Some(DictGet(result.documents, DictGet(state.documents, {})))]

\* create_analysis_chain.enter_sentiment_chain
enter_sentiment_chain(message, documents) ==
    [messages |-> <<HumanMessage(message, "-")>>, documents |-> Some(documents),
     team_members |-> Some("Topic, Sentiment"), next |-> None]

\* build_main_graph.join_graph: the last inner message, and the inner documents
\* only when there are some
join_graph_Always(response) ==
    [messages |-> <<Last(response.messages)>>,
     documents |-> Some(DictGet(response.documents, {}))]
join_graph_AllMessages(response) ==
    [messages |-> response.messages,
     documents |-> IF response.documents # None /\ response.documents[1] # {}
                   THEN response.documents ELSE None]
join_graph(response) ==
    [messages |-> <<Last(response.messages)>>,
     documents |-> IF response.documents # None /\ response.documents[1] # {}
                   THEN response.documents ELSE None]

\* the state a team graph is entered with from the main graph
EnterTeam(teamName, st) ==
    IF teamName = "Research team"
    THEN enter_research_chain(get_last_message(st))
    ELSE enter_sentiment_chain(Last(st.messages).content, DictGet(st.documents, {}))

\* what the team's chain hands to join_graph once the team graph has ended with
\* the channel values result
TeamResponse(teamName, st, result) ==
    IF teamName = "Research team"
    THEN research_chain_with_docs(enter_research_chain(get_last_message(st)), result)
    ELSE result

\* what the team node returns to the main graph
ExitTeam(teamName, st, result) == join_graph(TeamResponse(teamName, st, result))

TeamMembers(teamName) ==
    IF teamName = "Research team" THEN ResearchMembers ELSE AnalysisMembers

----------------------------------------------------------------------------
(* utils/helpers.py *)

\* the url argument: a bare 11-character id, one of the YouTube URL patterns
\* around an id, or some other text
UrlForms == {"id", "watch?v=", "youtu.be/", "embed/", "v/"}
Urls == {[form |-> f, id |-> v] : f \in UrlForms, v \in Videos}
          \cup {[form |-> "other", id |-> "-"]}
\* extract_video_id: the id itself, the id a pattern captures, or None
extract_video_id(url) == IF url.form \in UrlForms THEN Some(url.id) ELSE None

Event(type, agent, content) ==
    [type |-> type, agent |-> agent, content |-> content, documents |-> None]
format_progress_message(content) == Event("progress", "-", content)
format_error_message(error) == Event("error", "-", error)
\* the session_created event of a new analysis
session_created_AsProgress(session_id) == Event("progress", "-", session_id)
session_created(session_id) == Event("session_created", "-", session_id)
\* format_final_response: the documents key is only set for a non-empty list
format_final_response_NoDocuments(content, documents) == Event("final", "-", content)
format_final_response(content, documents) ==
    [Event("final", "-", content) EXCEPT
        !.documents = IF documents # {}
                      THEN Some({[content |-> d.page_content, metadata |-> d.metadata] :
                                   d \in documents})
                      ELSE None]

----------------------------------------------------------------------------
(* One run of a compiled team graph: compiled_research_graph.invoke(state),   *)
(* compiled_sentiment_graph.invoke(state).  The router and the agents are     *)
(* nondeterministic, so a run has a set of possible outcomes.                 *)

\* What a member node can return on channel values st.  retrieved is the last
\* result retrieve_information stored in _retrieved_documents (last when the
\* node did not call the tool).
MemberRuns(name, sid, st, last) ==
    IF name = "CommentFinder"
    THEN {[update |-> agent_node_with_docs(st, o, name, None), retrieved |-> last,
           produced |-> FALSE] :
             o \in AgentOutputs}
         \cup {[update |-> agent_node_with_docs(st, o, name, Some(c)),
                retrieved |-> Some(c), produced |-> c # {}] :
                  o \in AgentOutputs, c \in RetrievalResults(sid)}
    ELSE {[update |-> agent_node(st, o, name), retrieved |-> last,
           produced |-> FALSE] :
             o \in AgentOutputs}

\* What _retrieved_documents can hold when a member node raises: last when the
\* node raised before any tool call, the stored result when the agent raised
\* after retrieve_information had run.
MemberFailures(name, sid, last) ==
    IF name = "CommentFinder"
    THEN {last} \cup {Some(c) : c \in RetrievalResults(sid)}
    ELSE {last}

\* the router node of a graph
SupervisorOf(teamName) ==
    IF teamName = "Research team" THEN "ResearchSupervisor" ELSE "AnalysisSupervisor"

\* the engine's step budget: a graph that has executed n super-steps may
\* execute another one while n is below its recursion_limit
BudgetLeft_OffByOne(n, limit) == n <= limit
BudgetLeft(n, limit) == n < limit

\* What is recorded of a team run besides its channel values.  retrieved: the
\* last value retrieve_information stored in _retrieved_documents; unknown: a
\* router emitted a name outside its members and FINISH; produced: a tool
\* observation carried documents; decisions: the destination the conditional
\* edge chose after each router step; trace: the nodes executed, in order
NoHistory ==
    [retrieved |-> None, unknown |-> FALSE, produced |-> FALSE,
     decisions |-> <<>>, trace |-> <<>>]

Outcome(status, st, h) ==
    [status |-> status, state |-> st, retrieved |-> h.retrieved,
     unknown |-> h.unknown, produced |-> h.produced, decisions |-> h.decisions,
     trace |-> h.trace]

\* The outcomes of the team graph from channel values st after n super-steps:
\* "ok" with the final channel values, or the exception that ended the run
\* ("route": the conditional edge raised; "capability": an LLM or tool call
\* raised; "recursion": GraphRecursionError).
RECURSIVE TeamOutcomes(_, _, _, _, _)
TeamOutcomes(teamName, sid, st, n, h) ==
    IF ~BudgetLeft(n, TeamRecursionLimit)
    THEN {Outcome("recursion", st, h)}
    ELSE {Outcome("capability", st, h)} \cup
         UNION {
            LET res == RouterStep(st, output, TeamMembers(teamName))
                h1 == [h EXCEPT !.unknown = @ \/ res.unknown,
                                !.trace = Append(@, SupervisorOf(teamName))]
                h2 == [h1 EXCEPT !.decisions = Append(@, res.dest)]
            IN  IF ~res.ok THEN {Outcome("route", st, h1)}
                ELSE IF res.dest = "END" THEN {Outcome("ok", res.state, h2)}
                ELSE IF ~BudgetLeft(n + 1, TeamRecursionLimit)
                THEN {Outcome("recursion", res.state, h2)}
                ELSE {Outcome("capability", res.state, [h2 EXCEPT !.retrieved = x]) :
                        x \in MemberFailures(res.dest, sid, h2.retrieved)} \cup
                     UNION {TeamOutcomes(teamName, sid, ApplyUpdate(res.state, m.update),
                                         n + 2,
                                         [h2 EXCEPT !.retrieved = m.retrieved,
                                                    !.produced = @ \/ m.produced,
                                                    !.trace = Append(@, res.dest)]) :
                               m \in MemberRuns(res.dest, sid, res.state, h2.retrieved)}
            : output \in ParserOutputs(TeamMembers(teamName))}

----------------------------------------------------------------------------
(* api/routes.py: analyze_video_stream, one instance per request *)

NoReq == [kind |-> "-", sid |-> "-", question |-> "-", video_id |-> "-"]
\* startLen, startDocs: length of the thread's log and its documents when the
\* turn started; teams: team nodes executed in the turn; inner: the documents
\* the last team run handed to join_graph; unknown: the level ("system",
\* "team") at which a router of the turn emitted a name outside its members
\* and FINISH; produced: a tool observation of a completed team run of the
\* turn carried documents;
\* run: the team run of the last step, when that step was a team node;
\* mid: what retrieve_information has stored in _retrieved_documents during
\* the node that is running;
\* emitted: for a team graph run step by step, what each of its router steps
\* that did not raise emitted, in order: Some(name) or None for an output
\* without "next"
NoTurn ==
    [startLen |-> 0, startDocs |-> None, teams |-> 0, inner |-> None,
     unknown |-> "-", produced |-> FALSE, run |-> None, mid |-> None,
     emitted |-> <<>>]

\* what is kept of a team run: the team, how it ended, the super-steps it
\* executed and, for a run that ended normally, its message log and routing
\* field at the end, its router's decisions and the nodes it executed
RunOf(teamName, o) ==
    IF o.status = "ok"
    THEN [team |-> teamName, status |-> o.status, steps |-> Len(o.trace),
          log |-> o.state.messages, decisions |-> o.decisions, trace |-> o.trace,
          next |-> o.state.next]
    ELSE [team |-> teamName, status |-> o.status, steps |-> Len(o.trace),
          log |-> <<>>, decisions |-> <<>>, trace |-> <<>>, next |-> None]

Init ==
    /\ StoreInit
    /\ ckpt = [s \in SessionIds |-> EmptyState]
    /\ retrieved_documents = {}
    /\ pc = [r \in Reqs |-> "idle"]
    /\ req = [r \in Reqs |-> NoReq]
    /\ events = [r \in Reqs |-> <<>>]
    /\ pass = [r \in Reqs |-> "-"]
    /\ loc = [r \in Reqs |-> EmptyState]
    /\ steps = [r \in Reqs |-> 0]
    /\ gnode = [r \in Reqs |-> "-"]
    /\ readback = [r \in Reqs |-> None]
    /\ turn = [r \in Reqs |-> NoTurn]
    /\ nteams = 0

runVars == <<pass, loc, steps, gnode, readback, turn>>

\* yield json.dumps(e) for each e of es
Yield(r, es) == events' = [events EXCEPT ![r] = @ \o es]

\* except Exception as e: yield the error event; the generator then ends
OnException_Continue(r, e) ==
    /\ Yield(r, <<format_error_message(e)>>)
    /\ pc' = pc
OnException(r, e) ==
    /\ Yield(r, <<format_error_message(e)>>)
    /\ pc' = [pc EXCEPT ![r] = "done"]

\* requests are numbered in the order they arrive
Earlier(r) == \A r2 \in Reqs : r2 < r => pc[r2] # "idle"

\* The generator of request r, suspended at position `at`, is resumed and runs
\* to its next yield or to its end: it yields es and is then at position `to`
Advance(r, at, es, to) ==
    /\ pc[r] = at
    /\ Yield(r, es)
    /\ pc' = [pc EXCEPT ![r] = to]

\* POST /analyze, step 1: extract_video_id, up to the first yield
AnalyzeBegin(r) ==
    /\ Earlier(r)
    /\ \E url \in Urls, q \in QuestionsOf(r) :
          LET video_id == extract_video_id(url)
          IN  /\ req' = [req EXCEPT ![r] =
                            [kind |-> "analyze", sid |-> "-", question |-> q,
                             video_id |-> DictGet(video_id, "-")]]
              /\ IF video_id = None
                 THEN Advance(r, "idle",
                              <<format_error_message("Invalid YouTube URL or video ID")>>,
                              "done")
                 ELSE Advance(r, "idle", <<format_progress_message("Analyzing video")>>,
                              "analyzing")
    /\ call' = NoCall
    /\ UNCHANGED <<now, sessions, used, ckpt, retrieved_documents, nteams>>
    /\ UNCHANGED runVars

\* step 2: the yield before the fetch
AnalyzeFetching(r) ==
    /\ Advance(r, "analyzing", <<format_progress_message("Fetching video data")>>,
               "fetching")
    /\ call' = NoCall
    /\ UNCHANGED <<now, sessions, used, ckpt, retrieved_documents, req, nteams>>
    /\ UNCHANGED runVars

\* step 2: create_unified_video_document returns or raises
AnalyzeFetch(r) ==
    /\ \E fetched \in BOOLEAN :
          IF fetched
          THEN Advance(r, "fetching", <<format_progress_message("Video")>>, "fetched")
          ELSE Advance(r, "fetching",
                       <<format_error_message("Error during analysis: fetch")>>, "done")
    /\ call' = NoCall
    /\ UNCHANGED <<now, sessions, used, ckpt, retrieved_documents, req, nteams>>
    /\ UNCHANGED runVars

\* step 3: create_session and the session_created event
AnalyzeCreateSession(r) ==
    /\ \E sid \in uuid4(used) :
          /\ sessions' = DictPut(sessions, sid, VideoSession(sid, req[r].video_id, now))
          /\ used' = used \cup {sid}
          /\ call' = Call("create", sid)
          /\ Advance(r, "fetched", <<session_created(sid)>>, "created")
          /\ req' = [req EXCEPT ![r].sid = sid]
    /\ UNCHANGED <<now, ckpt, retrieved_documents, nteams>>
    /\ UNCHANGED runVars

\* step 4: the yield before the documents are prepared
AnalyzePreparing(r) ==
    /\ Advance(r, "created", <<format_progress_message("Preparing documents")>>,
               "preparing")
    /\ call' = NoCall
    /\ UNCHANGED <<now, sessions, used, ckpt, retrieved_documents, req, nteams>>
    /\ UNCHANGED runVars

\* step 4: prepare_documents_for_retrieval returns or raises
AnalyzePrepare(r) ==
    /\ \E prepared \in BOOLEAN :
          IF prepared
          THEN Advance(r, "preparing", <<format_progress_message("Prepared documents")>>,
                       "prepared")
          ELSE Advance(r, "preparing",
                       <<format_error_message("Error during analysis: build")>>, "done")
    /\ call' = NoCall
    /\ UNCHANGED <<now, sessions, used, ckpt, retrieved_documents, req, nteams>>
    /\ UNCHANGED runVars

\* step 5: the yield before the retriever is built
AnalyzeBuilding(r) ==
    /\ Advance(r, "prepared", <<format_progress_message("Building retrieval system")>>,
               "building")
    /\ call' = NoCall
    /\ UNCHANGED <<now, sessions, used, ckpt, retrieved_documents, req, nteams>>
    /\ UNCHANGED runVars

\* step 5: create_bm25_retriever, create_generator_llm and build_rag_graph
\* return or one of them raises
AnalyzeRetriever(r) ==
    /\ \E built \in BOOLEAN :
          IF built
          THEN Advance(r, "building",
                       <<format_progress_message("Initializing multi-agent system")>>,
                       "initializing")
          ELSE Advance(r, "building",
                       <<format_error_message("Error during analysis: build")>>, "done")
    /\ call' = NoCall
    /\ UNCHANGED <<now, sessions, used, ckpt, retrieved_documents, req, nteams>>
    /\ UNCHANGED runVars

\* step 6: the LLMs, tools and graphs are built, or building them raises;
\* then update_session with every artifact, and the first yield of step 7
AnalyzeBuild(r) ==
    /\ \E built \in BOOLEAN :
          IF built
          THEN /\ sessions' = update_session(sessions, req[r].sid, "built", "built",
                                             "built", "built", now)
               /\ call' = [Call("update", req[r].sid) EXCEPT
                             !.args = Some([main_graph |-> "built", documents |-> "built",
                                            bm25_retriever |-> "built",
                                            raw_blobs |-> "built"])]
               /\ Advance(r, "initializing",
                          <<format_progress_message("Starting analysis")>>, "start")
          ELSE /\ Advance(r, "initializing",
                          <<format_error_message("Error during analysis: build")>>, "done")
               /\ call' = NoCall
               /\ UNCHANGED sessions
    /\ UNCHANGED <<now, used, ckpt, retrieved_documents, req, nteams>>
    /\ UNCHANGED runVars

\* the follow-up's test of what get_session returned:
\* not (not session or not session.main_graph)
SessionUsable_NoCheck(ret) == TRUE
SessionUsable(ret) == ret # None /\ ret[1].main_graph # "none"

\* POST /query: the follow-up branch, up to its first yield
QueryBegin(r) ==
    /\ Earlier(r)
    /\ \E sid \in SessionIds, q \in QuestionsOf(r) :
          req' = [req EXCEPT ![r] = [kind |-> "query", sid |-> sid, question |-> q,
                                     video_id |-> "-"]]
    /\ Advance(r, "idle", <<format_progress_message("Continuing conversation")>>,
               "continuing")
    /\ call' = NoCall
    /\ UNCHANGED <<now, sessions, used, ckpt, retrieved_documents, nteams>>
    /\ UNCHANGED runVars

\* the follow-up branch: get_session and its check
QueryLookup(r) ==
    /\ LET sid == req[r].sid
           g == get_session(sessions, sid, now)
       IN  /\ sessions' = g.store
           /\ call' = [Call("get", sid) EXCEPT
                         !.was = IF sid \in DOMAIN sessions
                                 THEN Some(sessions[sid]) ELSE None,
                         !.ret = g.ret]
           /\ IF ~SessionUsable(g.ret)
              THEN Advance(r, "continuing",
                           <<format_error_message("Session not found or expired")>>,
                           "done")
              ELSE Advance(r, "continuing",
                           <<format_progress_message("Using cached data")>>, "cached")
    /\ UNCHANGED <<now, used, ckpt, retrieved_documents, req, nteams>>
    /\ UNCHANGED runVars

\* the follow-up branch: the first yield of step 7
QueryStart(r) ==
    /\ Advance(r, "cached", <<format_progress_message("Starting analysis")>>, "start")
    /\ call' = NoCall
    /\ UNCHANGED <<now, sessions, used, ckpt, retrieved_documents, req, nteams>>
    /\ UNCHANGED runVars

\* main_graph.astream / ainvoke(initial_state, config) on thread session_id:
\* the checkpoint of the thread with the input applied through the reducers
ApplyInput_Reset(checkpoint, question) ==
    ApplyUpdate(EmptyState, [messages |-> <<HumanMessage(question, "-")>>,
                             documents |-> None])
ApplyInput(checkpoint, question) ==
    ApplyUpdate(checkpoint, [messages |-> <<HumanMessage(question, "-")>>,
                             documents |-> None])

\* the invocation saves its channel values as the thread's checkpoint
PutCheckpoint(r) == ckpt' = [ckpt EXCEPT ![req[r].sid] = loc'[r]]

\* step 7: main_graph.astream is called and takes the input
StreamBegin(r) ==
    /\ pc[r] = "start"
    /\ UNCHANGED events
    /\ pc' = [pc EXCEPT ![r] = "run"]
    /\ pass' = [pass EXCEPT ![r] = "stream"]
    /\ loc' = [loc EXCEPT ![r] = ApplyInput(ckpt[req[r].sid], req[r].question)]
    /\ PutCheckpoint(r)
    /\ steps' = [steps EXCEPT ![r] = 0]
    /\ gnode' = [gnode EXCEPT ![r] = "SuperSupervisor"]
    /\ turn' = [turn EXCEPT ![r].startLen = Len(ckpt[req[r].sid].messages),
                             ![r].startDocs = ckpt[req[r].sid].documents]
    /\ call' = NoCall
    /\ UNCHANGED <<now, sessions, used, retrieved_documents, req, nteams, readback>>

\* What the streaming loop does with the update the engine reports for a
\* router step: an update that wrote no channel is reported as None, and
\* '"messages" in state_update' raises TypeError on it
StreamedUpdateRaises(p, output) == p = "stream" /\ ~extract_next(output).has_next

\* the SuperSupervisor node and its conditional edge
SysSupervisor(r) ==
    /\ pc[r] = "run"
    /\ gnode[r] = "SuperSupervisor"
    /\ BudgetLeft(steps[r], RecursionLimit)
    /\ \E output \in ParserOutputs(SuperMembers) :
          LET res == RouterStep(loc[r], output, SuperMembers)
          IN  IF res.ok /\ StreamedUpdateRaises(pass[r], output)
              THEN /\ OnException(r, "Error during analysis: argument of type 'NoneType' is not iterable")
                   /\ UNCHANGED <<loc, gnode, steps, ckpt>>
                   /\ turn' = [turn EXCEPT ![r].inner = None, ![r].run = None]
              ELSE IF res.ok
              THEN /\ loc' = [loc EXCEPT ![r] = res.state]
                   /\ gnode' = [gnode EXCEPT ![r] = res.dest]
                   /\ steps' = [steps EXCEPT ![r] = @ + 1]
                   /\ PutCheckpoint(r)
                   /\ UNCHANGED <<events, pc>>
                   /\ turn' = [turn EXCEPT ![r].inner = None, ![r].run = None,
                         ![r].unknown = IF res.unknown THEN "system" ELSE @]
              ELSE /\ OnException(r, "Error during analysis: route")
                   /\ UNCHANGED <<loc, gnode, steps, ckpt>>
                   /\ turn' = [turn EXCEPT ![r].inner = None, ![r].run = None,
                         ![r].unknown = IF res.unknown THEN "system" ELSE @]
    /\ readback' = [readback EXCEPT ![r] = None]
    /\ call' = NoCall
    /\ UNCHANGED <<now, sessions, used, retrieved_documents, req, nteams, pass>>

\* str(e) of the exception that ended a team run, as the handler reports it
ErrorOf(status) ==
    CASE status = "route" -> "Error during analysis: route"
      [] status = "capability" -> "Error during analysis: capability"
      [] OTHER -> "Error during analysis: recursion limit"

\* inside a running team node: the team's CommentFinder calls
\* retrieve_information (an agent may call its tool more than once), which
\* stores the result in _retrieved_documents; the team graph is still running
TeamRetrieve(r) ==
    /\ pc[r] = "run"
    /\ gnode[r] \in SuperMembers
    /\ BudgetLeft(steps[r], RecursionLimit)
    /\ nteams < MaxTeamRuns
    /\ \E o \in TeamOutcomes(gnode[r], req[r].sid, EnterTeam(gnode[r], loc[r]), 0,
                              NoHistory) : o.retrieved # None
    /\ \E c \in RetrievalResults(req[r].sid) :
          /\ Some(c) # turn[r].mid
          /\ retrieved_documents' = c
          /\ turn' = [turn EXCEPT ![r].mid = Some(c)]
    /\ call' = NoCall
    /\ UNCHANGED <<now, sessions, used, ckpt, pc, req, events, nteams, pass, loc, steps,
                   gnode, readback>>

\* a team node returns or raises: "Research team" is get_last_message |
\* research_chain | join_graph, "Analysis team" is get_messages_and_documents.
\* The run is one whose retrieval is the one that has happened.
TeamNode(r) ==
    /\ pc[r] = "run"
    /\ gnode[r] \in SuperMembers
    /\ BudgetLeft(steps[r], RecursionLimit)
    /\ nteams < MaxTeamRuns
    /\ nteams' = nteams + 1
    /\ UNCHANGED retrieved_documents
    /\ \E o \in TeamOutcomes(gnode[r], req[r].sid, EnterTeam(gnode[r], loc[r]), 0,
                              NoHistory) :
          /\ o.retrieved = turn[r].mid
          /\ IF o.status = "ok"
             THEN LET upd == ExitTeam(gnode[r], loc[r], o.state)
                  IN  /\ loc' = [loc EXCEPT ![r] = ApplyUpdate(@, upd)]
                      /\ IF pass[r] = "stream"
                         THEN Yield(r, <<Event("agent_message", Last(upd.messages).name,
                                               Last(upd.messages).content)>>)
                         ELSE UNCHANGED events
                      /\ PutCheckpoint(r)
                      /\ steps' = [steps EXCEPT ![r] = @ + 1]
                      /\ gnode' = [gnode EXCEPT ![r] = "SuperSupervisor"]
                      /\ turn' = [turn EXCEPT
                            ![r].teams = @ + 1,
                            ![r].inner = Some(DictGet(
                                TeamResponse(gnode[r], loc[r], o.state).documents, {})),
                            ![r].unknown = IF o.unknown THEN "team" ELSE @,
                            ![r].produced = @ \/ o.produced,
                            ![r].run = Some(RunOf(gnode[r], o)),
                            ![r].mid = None]
                      /\ UNCHANGED pc
             ELSE /\ OnException(r, ErrorOf(o.status))
                  /\ turn' = [turn EXCEPT
                            ![r].unknown = IF o.unknown THEN "team" ELSE @,
                            ![r].run = Some(RunOf(gnode[r], o)),
                            ![r].mid = None]
                  /\ UNCHANGED <<loc, ckpt, steps, gnode>>
    /\ call' = NoCall
    /\ UNCHANGED <<now, sessions, used, req, pass, readback>>

\* get_retrieved_documents, called on behalf of the request's session between
\* two nodes of its graph
GetRetrievedDocuments(r) ==
    /\ pc[r] = "run"
    /\ gnode[r] = "SuperSupervisor"
    /\ readback[r] = None
    /\ readback' = [readback EXCEPT ![r] = Some(retrieved_documents)]
    /\ call' = NoCall
    /\ UNCHANGED <<now, sessions, used, ckpt, retrieved_documents, pc, req, events,
                   nteams, pass, loc, steps, gnode, turn>>

\* the LLM call of the SuperSupervisor raises
CapabilityFailure_DropsSession(r) ==
    /\ pc[r] = "run"
    /\ gnode[r] = "SuperSupervisor"
    /\ BudgetLeft(steps[r], RecursionLimit)
    /\ OnException(r, "Error during analysis: capability")
    /\ call' = NoCall
    /\ sessions' = delete_session(sessions, req[r].sid)
    /\ UNCHANGED <<now, used, ckpt, retrieved_documents, req, nteams>>
    /\ UNCHANGED runVars
CapabilityFailure(r) ==
    /\ pc[r] = "run"
    /\ gnode[r] = "SuperSupervisor"
    /\ BudgetLeft(steps[r], RecursionLimit)
    /\ OnException(r, "Error during analysis: capability")
    /\ call' = NoCall
    /\ UNCHANGED <<now, sessions, used, ckpt, retrieved_documents, req, nteams>>
    /\ UNCHANGED runVars

\* GraphRecursionError: the step budget is used up and the graph has not ended
RecursionError(r) ==
    /\ pc[r] = "run"
    /\ gnode[r] \notin {"-", "END"}
    /\ ~BudgetLeft(steps[r], RecursionLimit)
    /\ OnException(r, "Error during analysis: recursion limit")
    /\ call' = NoCall
    /\ UNCHANGED <<now, sessions, used, ckpt, retrieved_documents, req, nteams>>
    /\ UNCHANGED runVars

\* step 8: the streaming drive has ended, ainvoke drives the graph again
InvokeBegin(r) ==
    /\ pc[r] = "run"
    /\ pass[r] = "stream"
    /\ gnode[r] = "END"
    /\ pass' = [pass EXCEPT ![r] = "invoke"]
    /\ loc' = [loc EXCEPT ![r] = ApplyInput(ckpt[req[r].sid], req[r].question)]
    /\ PutCheckpoint(r)
    /\ steps' = [steps EXCEPT ![r] = 0]
    /\ gnode' = [gnode EXCEPT ![r] = "SuperSupervisor"]
    /\ call' = NoCall
    /\ UNCHANGED <<now, sessions, used, retrieved_documents, pc, req, events, nteams,
                   readback, turn>>

\* step 8: ainvoke has returned the final state
Finalize(r) ==
    /\ pc[r] = "run"
    /\ pass[r] = "invoke"
    /\ gnode[r] = "END"
    /\ LET final_state == loc[r]
       IN  IF final_state.messages # <<>>
           THEN Yield(r, <<format_final_response(Last(final_state.messages).content,
                                                 DictGet(final_state.documents, {}))>>)
           ELSE Yield(r, <<format_error_message("No response generated")>>)
    /\ pc' = [pc EXCEPT ![r] = "done"]
    /\ call' = NoCall
    /\ UNCHANGED <<now, sessions, used, ckpt, retrieved_documents, req, nteams>>
    /\ UNCHANGED runVars

\* no request is being served
Quiet == \A r \in Reqs : pc[r] \in {"idle", "done"}

\* requests served one after the other
Next ==
    \/ \E r \in Reqs : Quiet /\ AnalyzeBegin(r)
    \/ \E r \in Reqs : AnalyzeFetching(r)
    \/ \E r \in Reqs : AnalyzeFetch(r)
    \/ \E r \in Reqs : AnalyzeCreateSession(r)
    \/ \E r \in Reqs : AnalyzePreparing(r)
    \/ \E r \in Reqs : AnalyzePrepare(r)
    \/ \E r \in Reqs : AnalyzeBuilding(r)
    \/ \E r \in Reqs : AnalyzeRetriever(r)
    \/ \E r \in Reqs : AnalyzeBuild(r)
    \/ \E r \in Reqs : Quiet /\ QueryBegin(r)
    \/ \E r \in Reqs : QueryLookup(r)
    \/ \E r \in Reqs : QueryStart(r)
    \/ \E r \in Reqs : StreamBegin(r)
    \/ \E r \in Reqs : SysSupervisor(r)
    \/ \E r \in Reqs : TeamRetrieve(r)
    \/ \E r \in Reqs : TeamNode(r)
    \/ \E r \in Reqs : GetRetrievedDocuments(r)
    \/ \E r \in Reqs : CapabilityFailure(r)
    \/ \E r \in Reqs : RecursionError(r)
    \/ \E r \in Reqs : InvokeBegin(r)
    \/ \E r \in Reqs : Finalize(r)

Spec == Init /\ [][Next]_vars

\* requests served concurrently: a request may arrive while another is served
NextConc ==
    \/ \E r \in Reqs : AnalyzeBegin(r)
    \/ \E r \in Reqs : AnalyzeFetching(r)
    \/ \E r \in Reqs : AnalyzeFetch(r)
    \/ \E r \in Reqs : AnalyzeCreateSession(r)
    \/ \E r \in Reqs : AnalyzePreparing(r)
    \/ \E r \in Reqs : AnalyzePrepare(r)
    \/ \E r \in Reqs : AnalyzeBuilding(r)
    \/ \E r \in Reqs : AnalyzeRetriever(r)
    \/ \E r \in Reqs : AnalyzeBuild(r)
    \/ \E r \in Reqs : QueryBegin(r)
    \/ \E r \in Reqs : QueryLookup(r)
    \/ \E r \in Reqs : QueryStart(r)
    \/ \E r \in Reqs : StreamBegin(r)
    \/ \E r \in Reqs : SysSupervisor(r)
    \/ \E r \in Reqs : TeamRetrieve(r)
    \/ \E r \in Reqs : TeamNode(r)
    \/ \E r \in Reqs : GetRetrievedDocuments(r)
    \/ \E r \in Reqs : CapabilityFailure(r)
    \/ \E r \in Reqs : RecursionError(r)
    \/ \E r \in Reqs : InvokeBegin(r)
    \/ \E r \in Reqs : Finalize(r)

\* the concurrent runs are explored with one team run left
InitConc ==
    /\ StoreInit
    /\ ckpt = [s \in SessionIds |-> EmptyState]
    /\ retrieved_documents = {}
    /\ pc = [r \in Reqs |-> "idle"]
    /\ req = [r \in Reqs |-> NoReq]
    /\ events = [r \in Reqs |-> <<>>]
    /\ pass = [r \in Reqs |-> "-"]
    /\ loc = [r \in Reqs |-> EmptyState]
    /\ steps = [r \in Reqs |-> 0]
    /\ gnode = [r \in Reqs |-> "-"]
    /\ readback = [r \in Reqs |-> None]
    /\ turn = [r \in Reqs |-> NoTurn]
    /\ nteams = MaxTeamRuns - 1

SpecConc == InitConc /\ [][NextConc]_vars

\* the session store alone, driven through its public methods
SpecStore == Init /\ [][StoreNext]_vars

\* time passing while a request is suspended or waiting, or between requests
Elapse ==
    /\ \E d \in TickSteps :
          /\ now + d <= MaxServeNow
          /\ now' = now + d
    /\ call' = NoCall
    /\ UNCHANGED <<sessions, used>>
    /\ UNCHANGED graphVars

\* requests served one after the other; the clock advances at any point, also
\* while a request is suspended at a yield or waiting for a call
NextExpiry ==
    \/ Elapse
    \/ \E r \in Reqs : Quiet /\ AnalyzeBegin(r)
    \/ \E r \in Reqs : AnalyzeFetching(r)
    \/ \E r \in Reqs : AnalyzeFetch(r)
    \/ \E r \in Reqs : AnalyzeCreateSession(r)
    \/ \E r \in Reqs : AnalyzePreparing(r)
    \/ \E r \in Reqs : AnalyzePrepare(r)
    \/ \E r \in Reqs : AnalyzeBuilding(r)
    \/ \E r \in Reqs : AnalyzeRetriever(r)
    \/ \E r \in Reqs : AnalyzeBuild(r)
    \/ \E r \in Reqs : Quiet /\ QueryBegin(r)
    \/ \E r \in Reqs : QueryLookup(r)
    \/ \E r \in Reqs : QueryStart(r)
    \/ \E r \in Reqs : StreamBegin(r)
    \/ \E r \in Reqs : SysSupervisor(r)
    \/ \E r \in Reqs : TeamRetrieve(r)
    \/ \E r \in Reqs : TeamNode(r)
    \/ \E r \in Reqs : GetRetrievedDocuments(r)
    \/ \E r \in Reqs : CapabilityFailure(r)
    \/ \E r \in Reqs : RecursionError(r)
    \/ \E r \in Reqs : InvokeBegin(r)
    \/ \E r \in Reqs : Finalize(r)

SpecExpiry == InitConc /\ [][NextExpiry]_vars

----------------------------------------------------------------------------
(* One invocation of a compiled team graph, super-step by super-step:        *)
(* compiled_research_graph.invoke(state), compiled_sentiment_graph.invoke.   *)
(* Request 1 stands for the caller; pc is "team" while the graph runs,       *)
(* "ended" when it has reached END and "raised" when a step raised.          *)

\* the team graph a node belongs to
TeamOf(node) ==
    IF node \in ResearchMembers \cup {"ResearchSupervisor"}
    THEN "Research team" ELSE "Analysis team"

\* the system-level channel values a team can be entered from: the question,
\* with or without documents of an earlier team
EntryStates ==
    {[messages |-> <<HumanMessage(q, "-")>>, documents |-> d, next |-> None] :
        q \in {"q1"}, d \in {None, Some({Document("s1", "c1")})}}

InitTeam ==
    /\ StoreInit
    /\ ckpt = [s \in SessionIds |-> EmptyState]
    /\ retrieved_documents = {}
    /\ pc = [r \in Reqs |-> IF r = 1 THEN "team" ELSE "idle"]
    /\ req = [r \in Reqs |-> IF r = 1
                              THEN [kind |-> "analyze", sid |-> "s1", question |-> "q1",
                                    video_id |-> "v1"]
                              ELSE NoReq]
    /\ events = [r \in Reqs |-> <<>>]
    /\ pass = [r \in Reqs |-> "-"]
    /\ \E teamName \in SuperMembers, st \in EntryStates :
          /\ loc = [r \in Reqs |-> IF r = 1 THEN EnterTeam(teamName, st) ELSE EmptyState]
          /\ gnode = [r \in Reqs |-> IF r = 1 THEN SupervisorOf(teamName) ELSE "-"]
    /\ steps = [r \in Reqs |-> 0]
    /\ readback = [r \in Reqs |-> None]
    /\ turn = [r \in Reqs |-> NoTurn]
    /\ nteams = 0

\* the team's supervisor node and its conditional edge
TeamSupervisor(r) ==
    /\ pc[r] = "team"
    /\ gnode[r] = SupervisorOf(TeamOf(gnode[r]))
    /\ BudgetLeft(steps[r], TeamStepLimit)
    /\ \E output \in ParserOutputs(TeamMembers(TeamOf(gnode[r]))) :
          LET res == RouterStep(loc[r], output, TeamMembers(TeamOf(gnode[r])))
              emitted == extract_next(output)
          IN  IF res.ok
              THEN /\ loc' = [loc EXCEPT ![r] = res.state]
                   /\ gnode' = [gnode EXCEPT ![r] = res.dest]
                   /\ steps' = [steps EXCEPT ![r] = @ + 1]
                   /\ pc' = [pc EXCEPT ![r] = IF res.dest = "END" THEN "ended" ELSE @]
                   /\ turn' = [turn EXCEPT ![r].emitted =
                                  Append(@, IF emitted.has_next THEN Some(emitted.next)
                                            ELSE None)]
              ELSE /\ pc' = [pc EXCEPT ![r] = "raised"]
                   /\ UNCHANGED <<loc, gnode, steps, turn>>
    /\ UNCHANGED <<now, sessions, used, call, ckpt, retrieved_documents, req, events,
                   pass, readback, nteams>>

\* inside the CommentFinder node: the agent calls retrieve_information (it may
\* do so more than once), which stores the result in _retrieved_documents; the node is still running
TeamTool(r) ==
    /\ pc[r] = "team"
    /\ gnode[r] = "CommentFinder"
    /\ BudgetLeft(steps[r], TeamStepLimit)
    /\ \E c \in RetrievalResults(req[r].sid) :
          /\ Some(c) # turn[r].mid
          /\ retrieved_documents' = c
          /\ turn' = [turn EXCEPT ![r].mid = Some(c)]
    /\ UNCHANGED <<now, sessions, used, call, ckpt, pc, req, events, pass, loc, steps,
                   gnode, readback, nteams>>

\* a member node of the team returns, and its edge back to the supervisor
TeamMember(r) ==
    /\ pc[r] = "team"
    /\ gnode[r] \in TeamMembers(TeamOf(gnode[r]))
    /\ BudgetLeft(steps[r], TeamStepLimit)
    /\ \E m \in MemberRuns(gnode[r], req[r].sid, loc[r], None) :
          /\ m.retrieved = turn[r].mid
          /\ loc' = [loc EXCEPT ![r] = ApplyUpdate(@, m.update)]
    /\ turn' = [turn EXCEPT ![r].mid = None]
    /\ gnode' = [gnode EXCEPT ![r] = SupervisorOf(TeamOf(gnode[r]))]
    /\ steps' = [steps EXCEPT ![r] = @ + 1]
    /\ UNCHANGED <<now, sessions, used, call, ckpt, retrieved_documents, pc, req, events,
                   pass, readback, nteams>>

\* the LLM or tool call of the node raises
TeamCapabilityFailure(r) ==
    /\ pc[r] = "team"
    /\ BudgetLeft(steps[r], TeamStepLimit)
    /\ pc' = [pc EXCEPT ![r] = "raised"]
    /\ UNCHANGED <<now, sessions, used, call, ckpt, retrieved_documents, req, events,
                   nteams>>
    /\ UNCHANGED runVars

\* GraphRecursionError of the team graph
TeamRecursionError(r) ==
    /\ pc[r] = "team"
    /\ ~BudgetLeft(steps[r], TeamStepLimit)
    /\ pc' = [pc EXCEPT ![r] = "raised"]
    /\ UNCHANGED <<now, sessions, used, call, ckpt, retrieved_documents, req, events,
                   nteams>>
    /\ UNCHANGED runVars

NextTeam ==
    \/ \E r \in Reqs : TeamSupervisor(r)
    \/ \E r \in Reqs : TeamTool(r)
    \/ \E r \in Reqs : TeamMember(r)
    \/ \E r \in Reqs : TeamCapabilityFailure(r)
    \/ \E r \in Reqs : TeamRecursionError(r)

SpecTeam == InitTeam /\ [][NextTeam]_vars

----------------------------------------------------------------------------
(* Properties *)

\* C1: a team node that runs while the system-level document set is non-empty
\* and whose inner run hands back an empty document set leaves the system-level
\* document set, and the checkpointed one, as they were before the node.
C1_DocumentsKeptWhenTeamReturnsNone ==
    [][\A r \in Reqs :
          (/\ turn'[r].teams = turn[r].teams + 1
           /\ DictGet(loc[r].documents, {}) # {}
           /\ turn'[r].inner = Some({}))
          => /\ loc'[r].documents = loc[r].documents
             /\ ckpt'[req[r].sid].documents = loc[r].documents]_vars

\* C1 witness: a team node has just run with documents gathered earlier, its
\* inner run returned none, and the documents are still there
C1_Witness ==
    \E r \in Reqs :
        /\ pc[r] = "run"
        /\ turn[r].teams >= 1
        /\ turn[r].inner = Some({})
        /\ DictGet(loc[r].documents, {}) # {}

\* C2: the streaming drive of a follow-up turn starts the SuperSupervisor on
\* the thread's checkpoint: its log is the log the prior turn of the session
\* left, in order, followed by the new question, and its documents are the ones
\* the prior turn left.
C2_FollowUpStartsOnCheckpoint ==
    [][\A r \in Reqs :
          (req[r].kind = "query" /\ pc[r] = "start" /\ pc'[r] = "run")
          => /\ gnode'[r] = "SuperSupervisor"
             /\ loc'[r].messages =
                   ckpt[req[r].sid].messages \o <<HumanMessage(req[r].question, "-")>>
             /\ loc'[r].documents = ckpt[req[r].sid].documents
             /\ \A r0 \in Reqs :
                   (r0 # r /\ req[r0].sid = req[r].sid)
                   => /\ loc'[r].messages =
                            loc[r0].messages \o <<HumanMessage(req[r].question, "-")>>
                      /\ loc'[r].documents = loc[r0].documents]_vars

\* C2 witness: a follow-up turn has just started on a log of earlier messages
\* and a non-empty document set left by the first turn
C2_Witness ==
    \E r \in Reqs :
        /\ req[r].kind = "query"
        /\ pc[r] = "run" /\ pass[r] = "stream" /\ steps[r] = 0
        /\ Len(loc[r].messages) >= 4
        /\ Last(loc[r].messages) = HumanMessage(req[r].question, "-")
        /\ DictGet(loc[r].documents, {}) # {}

\* C3: the Analysis team node is never about to execute while the system-level
\* document set is empty.
C3_AnalysisNeverRunsWithoutDocuments ==
    \A r \in Reqs :
        (pc[r] = "run" /\ gnode[r] = "Analysis team" /\ BudgetLeft(steps[r], RecursionLimit))
        => DictGet(loc[r].documents, {}) # {}

\* C4: once a router of the turn, at the system or at a team level, has emitted
\* a name that is neither a member nor FINISH, the turn is over and its stream
\* ends with the routing error; no node runs after that choice and there is no
\* final event.
C4_UnknownRouteIsRoutingError ==
    \A r \in Reqs :
        turn[r].unknown # "-"
        => /\ pc[r] = "done"
           /\ Last(events[r]) = format_error_message("Error during analysis: route")
           /\ \A i \in 1..Len(events[r]) : events[r][i].type # "final"

\* C4 witness: one turn ended on an unknown name from the SuperSupervisor, one
\* on an unknown name from a team's supervisor
C4_Witness ==
    \E r1, r2 \in Reqs :
        /\ turn[r1].unknown = "system" /\ pc[r1] = "done"
        /\ turn[r2].unknown = "team" /\ pc[r2] = "done"

\* C5: a get_session call on a stored session whose last_accessed lies more
\* than the TTL before the lookup returns None and removes the session; a
\* call on an unknown id returns None; whatever a call returns is stored and
\* was accessed at most the TTL ago.
C5_GetSessionNeverReturnsExpired ==
    [][call'.op = "get"
       => /\ (call'.sid \notin DOMAIN sessions => call'.ret = None)
          /\ (call'.sid \in DOMAIN sessions
              /\ now - sessions[call'.sid].last_accessed > SessionTTL)
             => (call'.ret = None /\ call'.sid \notin DOMAIN sessions')
          /\ call'.ret # None
             => (/\ call'.sid \in DOMAIN sessions
                 /\ now - sessions[call'.sid].last_accessed <= SessionTTL)]_vars

\* C5 witness: a lookup of a stored session idle for more than the TTL has just
\* returned None and removed it
C5_Witness ==
    /\ call.op = "get"
    /\ call.was # None
    /\ now - call.was[1].last_accessed > SessionTTL
    /\ call.ret = None
    /\ call.sid \notin DOMAIN sessions

\* C6: a get_session call on a stored session last accessed less than the TTL
\* ago returns that session with last_accessed set to the time of the lookup,
\* and stores it so.
C6_SlidingExpiry ==
    [][(/\ call'.op = "get"
        /\ call'.sid \in DOMAIN sessions
        /\ now - sessions[call'.sid].last_accessed < SessionTTL)
       => /\ call'.ret = Some([sessions[call'.sid] EXCEPT !.last_accessed = now])
          /\ call'.sid \in DOMAIN sessions'
          /\ sessions'[call'.sid] = call'.ret[1]]_vars

\* C6 witness: a session created more than the TTL ago, looked up at shorter
\* intervals, has just been returned with its last_accessed refreshed
C6_Witness ==
    /\ call.op = "get"
    /\ call.ret # None
    /\ now - call.ret[1].created_at > SessionTTL
    /\ call.was # None /\ call.was[1].last_accessed < now
    /\ call.ret[1].last_accessed = now

\* C7: a turn that ends with a final event has grown the thread's checkpointed
\* log by its question, once, and by one message per team node it ran.
C7_TurnAppendsItsMessagesOnce ==
    \A r \in Reqs :
        (pc[r] = "done" /\ events[r] # <<>> /\ Last(events[r]).type = "final")
        => Len(ckpt[req[r].sid].messages) = turn[r].startLen + 1 + turn[r].teams

\* C8: no two turns of the same session are in progress at the same time.
C8_TurnsOfASessionSerialized ==
    \A r1, r2 \in Reqs :
        (r1 # r2 /\ pc[r1] = "run" /\ pc[r2] = "run") => req[r1].sid # req[r2].sid

\* C9: what get_retrieved_documents returns to a session holds only documents
\* of that session's own retriever.
C9_NoCrossSessionDocuments ==
    \A r \in Reqs :
        readback[r] # None => \A d \in readback[r][1] : d.metadata = req[r].sid

\* C10: in every stream a final or error event is the last event and belongs
\* to a turn that is over, so there is at most one and never both; the stream
\* of a turn that is over ends with one.
C10_OneTerminalEventLast ==
    \A r \in Reqs :
        /\ \A i \in 1..Len(events[r]) :
              events[r][i].type \in {"final", "error"}
              => (i = Len(events[r]) /\ pc[r] = "done")
        /\ pc[r] = "done"
           => (events[r] # <<>> /\ Last(events[r]).type \in {"final", "error"})

\* C10 witness: one stream ended with a final event, another with an error
\* event after an agent_message
C10_Witness ==
    \E r1, r2 \in Reqs :
        /\ pc[r1] = "done" /\ Last(events[r1]).type = "final"
        /\ pc[r2] = "done" /\ Last(events[r2]).type = "error"
        /\ \E i \in 1..Len(events[r2]) : events[r2][i].type = "agent_message"

\* C11: a /query whose session id is not in the store, or is stored but idle
\* for more than the TTL, yields the progress event and then the error event
\* "Session not found or expired", ends the stream, starts no graph drive and
\* writes no checkpoint; no session is created or changed (an expired one is
\* removed, every other entry of the store stays as it was).
C11_QueryOnMissingSessionIsUserError ==
    [][\A r \in Reqs :
          (/\ pc[r] = "continuing" /\ pc'[r] # "continuing"
           /\ \/ req[r].sid \notin DOMAIN sessions
              \/ now - sessions[req[r].sid].last_accessed > SessionTTL)
          => /\ pc'[r] = "done"
             /\ events'[r] = <<format_progress_message("Continuing conversation"),
                               format_error_message("Session not found or expired")>>
             /\ UNCHANGED <<ckpt, loc, steps, gnode, pass, used>>
             /\ DOMAIN sessions' = (DOMAIN sessions) \ {req[r].sid}
             /\ \A k \in DOMAIN sessions' : sessions'[k] = sessions[k]]_vars

\* C11 witness: a /query on a session that was stored, with its graph, and has
\* expired has just been answered with the error event
C11_Witness ==
    \E r \in Reqs :
        /\ req[r].kind = "query" /\ pc[r] = "done"
        /\ call.op = "get" /\ call.sid = req[r].sid
        /\ call.was # None /\ call.was[1].main_graph = "built"
        /\ call.ret = None
        /\ Last(events[r]) = format_error_message("Session not found or expired")

\* C12: an invocation of the main graph never executes more super-steps than
\* RecursionLimit, and a run of a team graph never more than
\* TeamRecursionLimit.  A main-graph invocation that has used up its budget
\* without reaching END, and a team run that has, end the turn with the
\* recursion error and without a final event.
C12_StepBoundEndsTurnWithError ==
    \A r \in Reqs :
        /\ steps[r] <= RecursionLimit
        /\ (pc[r] = "done" /\ pass[r] # "-" /\ steps[r] = RecursionLimit
              /\ gnode[r] # "END")
           => Last(events[r]) =
                 format_error_message("Error during analysis: recursion limit")
        /\ turn[r].run # None
           => /\ turn[r].run[1].steps <= TeamRecursionLimit
              /\ turn[r].run[1].status = "recursion"
                 => /\ turn[r].run[1].steps = TeamRecursionLimit
                    /\ pc[r] = "done"
                    /\ Last(events[r]) =
                          format_error_message("Error during analysis: recursion limit")

\* C12 witness: one turn ended because the main graph used up its budget,
\* another because a team graph did
C12_Witness ==
    \E r1, r2 \in Reqs :
        /\ pc[r1] = "done" /\ steps[r1] = RecursionLimit /\ gnode[r1] # "END"
        /\ turn[r1].run = None
        /\ turn[r2].run # None /\ turn[r2].run[1].status = "recursion"

\* C13: after a turn that ended in a routing failure (unknown name, or step
\* bound exceeded) the thread's checkpoint holds the message log and the
\* documents it held when the turn started.
C13_RoutingFailureLeavesCheckpointUntouched ==
    \A r \in Reqs :
        (/\ pc[r] = "done" /\ pass[r] # "-"
         /\ Last(events[r]).content \in {"Error during analysis: route",
                                         "Error during analysis: recursion limit"})
        => /\ Len(ckpt[req[r].sid].messages) = turn[r].startLen
           /\ ckpt[req[r].sid].documents = turn[r].startDocs

\* C14: a turn in which a capability call failed is over, its stream holds
\* exactly one error event, its session is still stored with its graph, the
\* checkpoint is the state of the last completed step until a later turn
\* starts, and a later /query on the session is accepted and drives the graph.
C14_CapabilityFailureHaltsOnlyTheTurn ==
    \A r \in Reqs :
        (\E i \in 1..Len(events[r]) :
            events[r][i] = format_error_message("Error during analysis: capability"))
        => /\ pc[r] = "done"
           /\ Cardinality({i \in 1..Len(events[r]) : events[r][i].type = "error"}) = 1
           /\ req[r].sid \in DOMAIN sessions
           /\ sessions[req[r].sid].main_graph = "built"
           /\ \A r2 \in Reqs :
                 (r2 > r /\ req[r2].sid = req[r].sid)
                 => /\ req[r2].kind = "query"
                    /\ pc[r2] # "done" \/ pass[r2] # "-"
           /\ (\A r2 \in Reqs : r2 > r => req[r2].sid # req[r].sid)
              => ckpt[req[r].sid] = loc[r]

\* C14 witness: after a turn halted by a capability failure, a /query on the
\* same session is driving the graph on the checkpoint that turn left
C14_Witness ==
    \E r, r2 \in Reqs :
        /\ pc[r] = "done"
        /\ Last(events[r]) = format_error_message("Error during analysis: capability")
        /\ r2 > r /\ req[r2].kind = "query" /\ req[r2].sid = req[r].sid
        /\ pc[r2] = "run"
        /\ Len(loc[r2].messages) = Len(loc[r].messages) + 1

\* C15: the final event of a follow-up turn in which no tool observation
\* carried documents lists the documents the checkpoint held when the turn
\* started, as content and metadata projections.
C15_FinalDocumentsDefaultToCheckpoint ==
    \A r \in Reqs :
        (/\ req[r].kind = "query" /\ pc[r] = "done"
         /\ Last(events[r]).type = "final"
         /\ ~turn[r].produced)
        => Last(events[r]).documents =
              IF DictGet(turn[r].startDocs, {}) = {} THEN None
              ELSE Some({[content |-> d.page_content, metadata |-> d.metadata] :
                           d \in turn[r].startDocs[1]})

\* C15 witness: a follow-up turn ran a team, no tool observation carried
\* documents, and its final event lists the documents of the earlier turn
C15_Witness ==
    \E r \in Reqs :
        /\ req[r].kind = "query" /\ pc[r] = "done"
        /\ Last(events[r]).type = "final"
        /\ ~turn[r].produced /\ turn[r].teams >= 1
        /\ Last(events[r]).documents # None
        /\ DictGet(turn[r].startDocs, {}) # {}

\* C16: the stream of a /query holds no session_created event.  The stream of
\* an /analyze that created a session holds exactly one, carrying the id of
\* that session, which is in the store under that id, and every agent_message
\* and final event comes after it; the stream of an /analyze that failed
\* before creating a session holds none.
C16_SessionCreatedOnceAndFirst ==
    \A r \in Reqs :
        LET created == {i \in 1..Len(events[r]) :
                          events[r][i].type = "session_created"}
        IN  /\ req[r].kind = "query" => created = {}
            /\ req[r].kind = "analyze"
               => /\ Cardinality(created) = IF req[r].sid = "-" THEN 0 ELSE 1
                  /\ \A i \in created :
                        /\ events[r][i].content = req[r].sid
                        /\ req[r].sid \in DOMAIN sessions
                        /\ sessions[req[r].sid].session_id = req[r].sid
                        /\ \A j \in 1..Len(events[r]) :
                              events[r][j].type \in {"agent_message", "final"}
                              => i < j
                  /\ \A j \in 1..Len(events[r]) :
                        events[r][j].type \in {"agent_message", "final"}
                        => created # {}

\* C16 witness: the stream of an /analyze holds a session_created event, then
\* an agent_message, and ends with a final event
C16_Witness ==
    \E r \in Reqs :
        /\ req[r].kind = "analyze" /\ pc[r] = "done"
        /\ Last(events[r]).type = "final"
        /\ \E i, j \in 1..Len(events[r]) :
              /\ i < j
              /\ events[r][i].type = "session_created"
              /\ events[r][j].type = "agent_message"

\* C17: a team node that runs to its end appends exactly one message to the
\* system-level log, the last message of the team's inner log, and the
\* checkpoint holds the log so extended.
C17_TeamNodeAppendsLastInnerMessage ==
    [][\A r \in Reqs :
          turn'[r].teams = turn[r].teams + 1
          => /\ turn'[r].run # None
             /\ turn'[r].run[1].log # <<>>
             /\ loc'[r].messages =
                   Append(loc[r].messages, Last(turn'[r].run[1].log))
             /\ ckpt'[req[r].sid].messages = loc'[r].messages]_vars

\* C17 witness: a team whose inner log holds the entry message and a member's
\* message has just handed the member's message to the system-level log
C17_Witness ==
    \E r \in Reqs :
        /\ pc[r] = "run"
        /\ turn[r].run # None /\ turn[r].run[1].status = "ok"
        /\ Len(turn[r].run[1].log) >= 2
        /\ Last(loc[r].messages) = Last(turn[r].run[1].log)
        /\ Last(loc[r].messages).name \in ResearchMembers \cup AnalysisMembers

\* C18: the state a team is entered with holds the system-level message log
\* and document set unchanged, and the team's member list.
C18_TeamEnteredWithSystemState ==
    \A r \in Reqs :
        (pc[r] = "run" /\ gnode[r] \in SuperMembers)
        => LET entered == EnterTeam(gnode[r], loc[r])
           IN  /\ entered.messages = loc[r].messages
               /\ DictGet(entered.documents, {}) = DictGet(loc[r].documents, {})
               /\ entered.team_members # None

\* the member a router step selected: the name it emitted or, when its output
\* carried no "next", the name emitted last before it, which is still in the
\* routing field (C27)
Selected(emitted, i) ==
    LET j == CHOOSE k \in 1..i :
                /\ emitted[k] # None
                /\ \A m \in (k + 1)..i : emitted[m] = None
    IN  emitted[j][1]

\* C19 (as stated): the log of a team run that ended with FINISH has as many
\* messages as the router took non-terminal decisions, attributed to the chosen
\* members in decision order.
C19_TeamLogLengthIsDecisions ==
    \A r \in Reqs :
        pc[r] = "ended"
        => LET decisions == turn[r].emitted
               log == loc[r].messages
           IN  /\ Len(log) = Len(decisions) - 1
               /\ \A i \in 1..Len(log) : log[i].name = Selected(decisions, i)

\* C19 (amended): the log of a team run that ended with FINISH is the entry
\* message followed by one message per non-terminal router step, in the order
\* of the steps, each attributed to the member that step selected: the member
\* its decision named or, for an output without a decision, the member named
\* last before it.  The last decision is FINISH and the length of the log is
\* the number of non-terminal router steps plus one.
C19_TeamLogIsEntryThenDecisions ==
    \A r \in Reqs :
        pc[r] = "ended"
        => LET decisions == turn[r].emitted
               log == loc[r].messages
           IN  /\ Last(decisions) = Some(FINISH)
               /\ decisions[1] # None
               /\ Len(log) = (Len(decisions) - 1) + 1
               /\ log[1].name = "-"
               /\ \E team \in SuperMembers :
                     \A i \in 1..(Len(decisions) - 1) :
                        /\ Selected(decisions, i) \in TeamMembers(team)
                        /\ log[i + 1].name = Selected(decisions, i)

\* C19 witness: a run of the Research team in which the router named
\* CommentFinder, then VideoSearch, then FINISH has ended
C19_Witness ==
    \E r \in Reqs :
        /\ pc[r] = "ended"
        /\ turn[r].emitted = <<Some("CommentFinder"), Some("VideoSearch"), Some(FINISH)>>
        /\ Len(loc[r].messages) = 3
        /\ loc[r].messages[2].name = "CommentFinder"
        /\ loc[r].messages[3].name = "VideoSearch"

\* C20: termination is reached only from the router when it chooses FINISH:
\* whenever a step of the SuperSupervisor leads the main graph to END, the
\* router's output of that step carried the decision FINISH.
C20_TerminationOnlyOnChosenFinish ==
    \A r \in Reqs :
        (pc[r] = "run" /\ gnode[r] = "SuperSupervisor"
            /\ BudgetLeft(steps[r], RecursionLimit))
        => \A output \in ParserOutputs(SuperMembers) :
              LET res == RouterStep(loc[r], output, SuperMembers)
                  emitted == extract_next(output)
              IN  (res.ok /\ ~StreamedUpdateRaises(pass[r], output) /\ res.dest = "END")
                  => (emitted.has_next /\ emitted.next = FINISH)

\* C21: the message log is append-only: over every step the log of each running
\* invocation and the checkpointed log of each session are prefixes of what
\* they are after the step, and the log a team run ends with extends the log
\* the team was entered with.
C21_MessageLogIsAppendOnly ==
    [][LET IsPrefix(a, b) == Len(a) <= Len(b) /\ SubSeq(b, 1, Len(a)) = a
       IN  /\ \A r \in Reqs : IsPrefix(loc[r].messages, loc'[r].messages)
           /\ \A s \in SessionIds : IsPrefix(ckpt[s].messages, ckpt'[s].messages)
           /\ \A r \in Reqs :
                 (turn'[r].teams = turn[r].teams + 1)
                 => IsPrefix(EnterTeam(gnode[r], loc[r]).messages,
                             turn'[r].run[1].log)]_vars

\* C22: when the inner run of a team node ends with a non-empty document set,
\* the system-level document set after the node, and the checkpointed one, is
\* exactly that set: nothing of the previous system-level set is merged in.
C22_InnerDocumentsReplaceOuter ==
    [][\A r \in Reqs :
          (/\ turn'[r].teams = turn[r].teams + 1
           /\ turn'[r].inner # None
           /\ turn'[r].inner[1] # {})
          => /\ loc'[r].documents = turn'[r].inner
             /\ ckpt'[req[r].sid].documents = turn'[r].inner]_vars

\* C22 witness: the first team node of a follow-up turn has run on a non-empty
\* document set left by the earlier turn, its inner run ended with other
\* documents, and the system-level set is now the inner one
C22_Witness ==
    \E r \in Reqs :
        /\ pc[r] = "run" /\ turn[r].teams = 1 /\ pass[r] = "stream"
        /\ DictGet(turn[r].startDocs, {}) # {}
        /\ turn[r].inner # None /\ turn[r].inner[1] # {}
        /\ turn[r].inner[1] \cap DictGet(turn[r].startDocs, {}) = {}
        /\ loc[r].documents = turn[r].inner

\* C23: inside a team run a member that produces no documents does not clear
\* the team's document set.  After VideoSearch, Sentiment or Topic every
\* document present before is still present; after CommentFinder the set is
\* what it was, unless its retrieval yielded documents, which are then the set.
C23_MemberWithoutDocumentsKeepsThem ==
    [][\A r \in Reqs :
          (pc[r] = "team" /\ steps'[r] = steps[r] + 1)
          => LET before == DictGet(loc[r].documents, {})
                 after == DictGet(loc'[r].documents, {})
             IN  /\ gnode[r] \in {"VideoSearch", "Sentiment", "Topic"}
                    => before \subseteq after
                 /\ gnode[r] = "CommentFinder"
                    => \/ after = before
                       \/ retrieved_documents' # {} /\ after = retrieved_documents']_vars

\* C23 witness: in one run of the Research team CommentFinder found documents,
\* VideoSearch ran after it, and the documents are still in the team's set
C23_Witness ==
    \E r \in Reqs :
        /\ pc[r] = "team"
        /\ Len(loc[r].messages) >= 3
        /\ loc[r].messages[2].name = "CommentFinder"
        /\ loc[r].messages[3].name = "VideoSearch"
        /\ DictGet(loc[r].documents, {}) # {}
        /\ DictGet(loc[r].documents, {}) = retrieved_documents

\* C24: CommentFinder is the only node of a team graph that can introduce
\* documents: after a step of any other node (VideoSearch, Sentiment, Topic or
\* the team's supervisor) every document of the set was in it before the step.
C24_OnlyCommentFinderIntroducesDocuments ==
    [][\A r \in Reqs :
          (pc[r] = "team" /\ steps'[r] = steps[r] + 1 /\ gnode[r] # "CommentFinder")
          => DictGet(loc'[r].documents, {}) \subseteq DictGet(loc[r].documents, {})]_vars

\* C24 witness: a member of the Analysis team has run on documents the team
\* was entered with, its supervisor after it, and the set is not empty
C24_Witness ==
    \E r \in Reqs :
        /\ pc[r] \in {"team", "ended"}
        /\ Len(loc[r].messages) >= 2
        /\ Last(loc[r].messages).name \in AnalysisMembers
        /\ steps[r] >= 3
        /\ DictGet(loc[r].documents, {}) # {}

\* C25: list_active_sessions lists only active sessions: no session in its
\* result has its last access more than the TTL in the past at the time of
\* the call.
C25_ListedSessionsAreActive ==
    call.op = "list"
    => \A sid \in call.listed :
          sid \in DOMAIN sessions /\ ~IsExpired(sessions[sid], now)

\* C26: expiry is permanent: once the last access of a stored session lies
\* more than the TTL in the past, no later get_session call returns that
\* session, whatever store operations happen in between.  Stated over every
\* step: an operation on a store holding an expired session does not return
\* that session and leaves it expired or removed, and a removed session does
\* not come back.
C26_ExpiryIsPermanent ==
    [][\A sid \in SessionIds :
          /\ (sid \in DOMAIN sessions /\ IsExpired(sessions[sid], now))
             => /\ ~(call'.op = "get" /\ call'.sid = sid /\ call'.ret # None)
                /\ sid \in DOMAIN sessions' => IsExpired(sessions'[sid], now')
          /\ (sid \in used /\ sid \notin DOMAIN sessions)
             => sid \notin DOMAIN sessions']_vars

\* C30: update_session changes, in the named session, only the artifact
\* fields passed as non-None and last_accessed; session_id, video_id, title,
\* channel and created_at of that session and every other session are
\* unchanged, and for an id not in the store nothing changes and no session
\* is created.
C30_UpdateSessionFrame ==
    [][call'.op = "update"
       => LET sid == call'.sid
              a == call'.args[1]
          IN  /\ DOMAIN sessions' = DOMAIN sessions
              /\ \A k \in DOMAIN sessions \ {sid} : sessions'[k] = sessions[k]
              /\ sid \in DOMAIN sessions
                 => /\ \A f \in {"session_id", "video_id", "video_title",
                                 "channel_name", "created_at"} :
                          sessions'[sid][f] = sessions[sid][f]
                    /\ \A f \in DOMAIN a :
                          sessions'[sid][f] =
                             IF a[f] # "none" THEN a[f] ELSE sessions[sid][f]
                    /\ sessions'[sid].last_accessed = now
              /\ used' = used /\ now' = now]_vars

\* C30 witness: update_session has been called with one artifact on a session
\* that already held another one, some time after the session was created,
\* while a second session is stored
C30_Witness ==
    /\ call.op = "update"
    /\ call.sid \in DOMAIN sessions
    /\ call.args = Some([main_graph |-> "none", documents |-> "built",
                         bm25_retriever |-> "none", raw_blobs |-> "none"])
    /\ sessions[call.sid].main_graph = "built"
    /\ sessions[call.sid].documents = "built"
    /\ sessions[call.sid].raw_blobs = "none"
    /\ sessions[call.sid].last_accessed > sessions[call.sid].created_at
    /\ DOMAIN sessions # {call.sid}

\* C27: every routing transition is selected by the decision the router
\* execution immediately before it emitted: whenever the SuperSupervisor's step
\* leads to a next node, its output carried a `next` and the node is the one
\* the path map gives for that value, never one selected by a `next` left in
\* the state by an earlier step or an earlier turn.
C27_RoutingFollowsEmittedDecision ==
    \A r \in Reqs :
        (pc[r] = "run" /\ gnode[r] = "SuperSupervisor"
            /\ BudgetLeft(steps[r], RecursionLimit))
        => \A output \in ParserOutputs(SuperMembers) :
              LET res == RouterStep(loc[r], output, SuperMembers)
                  emitted == extract_next(output)
              IN  (res.ok /\ ~StreamedUpdateRaises(pass[r], output))
                  => /\ emitted.has_next
                     /\ Route(SuperMembers, emitted.next) = Some(res.dest)

\* C28: a session id announced by a session_created event is usable for
\* follow-ups while the session is stored: a /query with that id that arrives
\* after the event is never answered 'Session not found or expired'.
C28_AnnouncedSessionIsUsable ==
    \A r \in Reqs :
        (/\ req[r].kind = "query"
         /\ req[r].sid \in DOMAIN sessions
         /\ \E r0 \in Reqs : \E i \in 1..Len(events[r0]) :
               r0 < r /\ events[r0][i] = session_created(req[r].sid))
        => \A i \in 1..Len(events[r]) :
              events[r][i] # format_error_message("Session not found or expired")

\* C29: when a team's router chooses FINISH as its first decision, the team
\* node appends one message to the system-level log, and its content is the
\* content of the message that was last in the log before the team ran; no
\* member ran.
C29_ImmediateFinishEchoesRequest ==
    [][\A r \in Reqs :
          (/\ turn'[r].teams = turn[r].teams + 1
           /\ turn'[r].run[1].decisions = <<"END">>)
          => /\ Len(loc'[r].messages) = Len(loc[r].messages) + 1
             /\ Last(loc'[r].messages).content = Last(loc[r].messages).content
             /\ turn'[r].run[1].trace = <<SupervisorOf(gnode[r])>>]_vars

\* C29 witness: in a follow-up that asks another question than the first turn,
\* a team whose router chose FINISH at once has echoed the new question
C29_Witness ==
    \E r \in Reqs :
        /\ pc[r] = "run" /\ pass[r] = "stream" /\ turn[r].teams = 1
        /\ turn[r].run # None /\ turn[r].run[1].status = "ok"
        /\ turn[r].run[1].decisions = <<"END">>
        /\ Len(loc[r].messages) = turn[r].startLen + 2
        /\ Last(loc[r].messages).content = req[r].question
        /\ loc[r].messages[1].content # req[r].question

====
